---- MODULE Spec2Model ----
(***************************************************************************)
(* Model of angr's Project (src/project.py): address-space assembly        *)
(* (load_libs / find_delta), import resolution (resolve_imports_from_libs) *)
(* and the static reference crawler (make_refs).                           *)
(***************************************************************************)
EXTENDS Integers, Sequences, FiniteSets, TLC

VARIABLES
    fs,              \* the search directory: file name -> content of the file
    binaries,        \* self.binaries: name -> loaded Binary
    min_addr,        \* self.min_addr
    max_addr,        \* self.max_addr
    remaining_libs,  \* load_libs: remaining_libs
    done_libs,       \* load_libs: done_libs
    pc,              \* position inside Project.__init__ / make_refs
    loads,           \* history: name -> number of Binary(...) constructions
    rebases,         \* history: name -> number of rebase() calls
    placed,          \* history: the images in the order they were placed
    patched,         \* Binary.resolve_import calls: name -> (import -> address)
    warnings,        \* the l.warning calls of resolve_imports_from_libs
    entry,           \* self.entry
    perm,            \* self.perm: the flags of the addresses held in the view
    image_perm,      \* the flags of the binaries the view self.perm holds, which pull() brings in
    mem_file,        \* <dir>/mem.p: <<>> when absent, else <<the saved perm view>>
    remaining_addrs, \* make_refs: remaining_addrs, a list of (address, state)
    sim_blocks,      \* make_refs: sim_blocks
    tbl,             \* make_refs: the eight local defaultdict(list) tables
    self_refs,       \* the attributes make_refs sets on the project at its end
    refs_left,       \* the number of references the program can still report
    popped,          \* history: the addresses popped, in order
    failed,          \* history: the addresses whose sim_block call raised
    mem_log,         \* history: what line 351 decided for each memory reference
    reports,         \* history: the references the analyzed blocks reported, in order
    procedures,      \* simuvex.procedures.SimProcedures: library -> stubbed functions
    import_addrs,    \* binary.get_import_addrs of the main binary: function -> sites
    sim_procedures,  \* self.sim_procedures: pseudo-address -> SimProcedure
    ida_mem          \* the bytes written to binary.ida.mem of the main binary

loadvars == <<binaries, min_addr, max_addr, remaining_libs, done_libs,
              loads, rebases, placed>>
resolvevars == <<patched, warnings>>
crawlvars == <<entry, perm, image_perm, mem_file, remaining_addrs, sim_blocks, tbl, self_refs,
               refs_left, popped, failed, mem_log, reports>>
stubvars == <<procedures, import_addrs, sim_procedures, ida_mem>>
vars == <<fs, binaries, min_addr, max_addr, remaining_libs, done_libs, pc,
          loads, rebases, placed, patched, warnings,
          entry, perm, image_perm, mem_file, remaining_addrs, sim_blocks, tbl, self_refs,
          refs_left, popped, failed, mem_log, reports,
          procedures, import_addrs, sim_procedures, ida_mem>>

\* granularity = 0x1000000
granularity == 16777216

\* self.filename, and the library names that may appear in dependency lists
MainName == "main"
LibNames == {"liba", "libb"}
Names == {MainName} \cup LibNames
NameOrder == <<"main", "liba", "libb">>

\* Natural (link-time) address ranges a file may have: <<min_addr, max_addr>>.
\*   0x400000..0x400fff, 0..0xffffff, 0xfff000..0x1000fff
Ranges == { <<4194304, 4198399>>, <<0, 16777215>>, <<16773120, 16781311>> }

SeqToSet(s) == { s[i] : i \in DOMAIN s }

\* Dependency lists in a fixed order, one per subset of S.
DepLists(S) == { SelectSeq(NameOrder, LAMBDA n : n \in T) : T \in SUBSET S }

\* Dependency lists in every order, without repetition.
DepPerms(S) ==
    { s \in UNION { [1..n -> S] : n \in 0..Cardinality(S) } :
        \A i, j \in DOMAIN s : i # j => s[i] # s[j] }

\* Symbol names, and the offset of each symbol inside the file that defines it
Symbols == {"f", "g"}
SymbolOffset == [ f |-> 16, g |-> 32 ]

\* An export is absent ("none"), has an address ("ok"), or is listed by
\* get_exports while get_symbol_addr raises for it ("bad").
ExportTables == [ Symbols -> {"none", "ok", "bad"} ]
NoExports == [ s \in Symbols |-> "none" ]

\* The content of a file as the Binary constructor reads it: files whose
\* address ranges vary and that carry no symbols ...
LayoutFiles ==
    { [ min_addr |-> r[1], max_addr |-> r[2], lib_names |-> d,
        exports |-> NoExports, imports |-> {} ] :
      r \in Ranges, d \in DepLists(Names) }

\* ... and files that all have the range 0x400000..0x400fff and whose
\* dependency lists (D) and symbol tables (E, I) vary.
SymbolFiles(D, E, I) ==
    { [ min_addr |-> 4194304, max_addr |-> 4198399, lib_names |-> d,
        exports |-> e, imports |-> i ] : d \in D, e \in E, i \in I }

\* Search directories: the main file always exists, a library may be absent.
Directories(MainFiles, LibFiles) ==
    { (MainName :> m) @@ l :
        m \in MainFiles, l \in UNION { [ L -> LibFiles ] : L \in SUBSET LibNames } }

\* Binary(path, arch): a loaded image, not yet rebased
Binary(name) ==
    [ name |-> name,
      min_addr |-> fs[name].min_addr,
      max_addr |-> fs[name].max_addr,
      lib_names |-> fs[name].lib_names,
      exports |-> fs[name].exports,
      imports |-> fs[name].imports ]

\* Binary.rebase(delta): shifts the image's address range by delta
rebase(b, delta) ==
    [ b EXCEPT !.min_addr = @ + delta, !.max_addr = @ + delta ]

\* os.path.exists(os.path.join(self.dirname, lib))
exists(lib) == lib \in DOMAIN fs

find_delta_no_headroom(cur_max, lib) ==
    LET start_offset == lib.min_addr % granularity
        new_start_bin == granularity * (cur_max \div granularity) + start_offset
    IN  new_start_bin - lib.min_addr

find_delta_no_offset(cur_max, lib) ==
    LET new_start_bin == granularity * ((cur_max + granularity) \div granularity)
    IN  new_start_bin - lib.min_addr

\* Project.find_delta, with self.max_addr passed as cur_max
find_delta(cur_max, lib) ==
    LET min_addr_bin == lib.min_addr
        start_offset == min_addr_bin % granularity
        new_start_bin == granularity * ((cur_max + granularity) \div granularity) + start_offset
    IN  new_start_bin - min_addr_bin

\* The addresses of the crawled program: the entry point 0x1000 and three
\* other addresses 0x2000, 0x3000, 0x4000
EntryAddr == 4096
Addrs == {4096, 8192, 12288, 16384}

\* The flags of the main image (bit 0 is the executable flag tested on line
\* 351): {0x1000: r-x, 0x2000: r-x, 0x3000: rw-}; 0x4000 is outside the image
ExamplePerm == (4096 :> 5) @@ (8192 :> 5) @@ (12288 :> 6)

\* The perm view of a mem.p that another project saved in the directory:
\* {0x1000: r-x, 0x2000: rw-, 0x3000: rwx, 0x4000: --x}
SavedPerm == (4096 :> 5) @@ (8192 :> 6) @@ (12288 :> 7) @@ (16384 :> 1)

\* The total number of references the blocks of a crawled program report,
\* over all the calls of make_refs
MaxRefs == 3

\* the eight defaultdict(list) tables, lines 269-276
TableNames == { "data_reads_to", "data_reads_from", "data_writes_to", "data_writes_from",
                "code_refs_to", "code_refs_from", "memory_refs_from", "memory_refs_to" }
NoTables == [ n \in TableNames |-> <<>> ]

Min(a, b) == IF a <= b THEN a ELSE b
Max(a, b) == IF a >= b THEN a ELSE b

\* Project.__init__ up to the call of load_libs, lines 25-35
Construct ==
    /\ binaries = (MainName :> Binary(MainName))
    /\ min_addr = fs[MainName].min_addr
    /\ max_addr = fs[MainName].max_addr
    /\ remaining_libs = {}
    /\ done_libs = {}
    /\ pc = "init"
    /\ loads = [ n \in Names |-> IF n = MainName THEN 1 ELSE 0 ]
    /\ rebases = [ n \in Names |-> 0 ]
    /\ placed = << Binary(MainName) >>
    /\ patched = [ n \in {} |-> 0 ]
    /\ warnings = {}

\* the project before make_refs is called
NotCrawled ==
    /\ remaining_addrs = <<>>
    /\ sim_blocks = {}
    /\ tbl = NoTables
    /\ self_refs = [ n \in {} |-> 0 ]
    /\ refs_left = MaxRefs
    /\ popped = <<>>
    /\ failed = {}
    /\ mem_log = {}
    /\ reports = <<>>

\* lines 43-44: the views are created empty; nothing is pulled yet.  There
\* is no mem.p and the flags of the images play no part before make_refs.
NotPulled ==
    /\ perm = <<>>
    /\ image_perm = <<>>
    /\ mem_file = <<>>

\* use_sim_procedures=False: nothing is stubbed; self.sim_procedures = { }
NotStubbed ==
    /\ procedures = [ n \in {} |-> {} ]
    /\ import_addrs = [ n \in {} |-> <<>> ]
    /\ sim_procedures = [ n \in {} |-> 0 ]
    /\ ida_mem = [ n \in {} |-> 0 ]

Init ==
    /\ fs \in Directories(LayoutFiles, LayoutFiles)
    /\ Construct
    /\ entry = fs[MainName].min_addr
    /\ NotPulled
    /\ NotCrawled
    /\ NotStubbed

ResolveInit ==
    /\ fs \in Directories(
                SymbolFiles(DepPerms(LibNames), {NoExports}, SUBSET Symbols),
                SymbolFiles({ d \in DepPerms(LibNames) : Len(d) <= 1 },
                            ExportTables, { {}, {"f"} }))
    /\ Construct
    /\ entry = fs[MainName].min_addr
    /\ NotPulled
    /\ NotCrawled
    /\ NotStubbed

\* load_libs, lines 71-72
load_libs_enter ==
    /\ pc = "init"
    /\ remaining_libs' = SeqToSet(binaries[MainName].lib_names)
    /\ done_libs' = {}
    /\ pc' = "load_libs"
    /\ UNCHANGED <<fs, binaries, min_addr, max_addr, loads, rebases, placed,
                   patched, warnings, crawlvars, stubvars>>

\* the condition of line 79
should_load(lib, done) == lib \notin done /\ exists(lib)

remaining_after_always_update(rem, lib, done) ==
    (rem \ {lib}) \cup (IF exists(lib) THEN SeqToSet(fs[lib].lib_names) ELSE {})

\* remaining_libs after one iteration: pop (line 76), update (line 95)
remaining_after(rem, lib, done) ==
    IF should_load(lib, done)
        THEN (rem \ {lib}) \cup SeqToSet(Binary(lib).lib_names)
        ELSE rem \ {lib}

\* one iteration of the while loop of load_libs, lines 75-95
load_libs_iter ==
    /\ pc = "load_libs"
    /\ remaining_libs # {}
    /\ \E lib \in remaining_libs :
        /\ remaining_libs' = remaining_after(remaining_libs, lib, done_libs)
        /\ IF should_load(lib, done_libs)
             THEN LET delta == find_delta(max_addr, Binary(lib))
                      new_lib == rebase(Binary(lib), delta)
                  IN  /\ done_libs' = done_libs \cup {lib}
                      /\ binaries' = (lib :> new_lib) @@ binaries
                      /\ min_addr' = Min(min_addr, new_lib.min_addr)
                      /\ max_addr' = Max(max_addr, new_lib.max_addr)
                      /\ loads' = [loads EXCEPT ![lib] = @ + 1]
                      /\ rebases' = [rebases EXCEPT ![lib] = @ + 1]
                      /\ placed' = Append(placed, new_lib)
             ELSE UNCHANGED <<done_libs, binaries, min_addr, max_addr, loads, rebases, placed>>
    /\ UNCHANGED <<fs, pc, patched, warnings, crawlvars, stubvars>>

\* the while loop of load_libs ends, line 75
load_libs_exit ==
    /\ pc = "load_libs"
    /\ remaining_libs = {}
    /\ pc' = "resolve"
    /\ UNCHANGED <<fs, loadvars, patched, warnings, crawlvars, stubvars>>

\* Binary.get_symbol_addr(export) of a loaded (rebased) image; raises for
\* a "bad" export
get_symbol_addr(lib, export) == lib.min_addr + SymbolOffset[export]

\* Binary.get_exports(): the names listed in the export table
get_exports(lib) == { s \in Symbols : lib.exports[s] # "none" }

\* lines 108-112 for one library: the exports whose address lookup succeeds
\* overwrite the entries of resolved
add_exports_abort_on_bad(resolved, lib) ==
    IF \E e \in get_exports(lib) : lib.exports[e] = "bad"
        THEN resolved
        ELSE [ s \in get_exports(lib) |-> get_symbol_addr(lib, s) ] @@ resolved

add_exports(resolved, lib) ==
    [ s \in { e \in get_exports(lib) : lib.exports[e] = "ok" } |-> get_symbol_addr(lib, s) ]
        @@ resolved

RECURSIVE collect_exports_stop_at_missing(_, _, _)
collect_exports_stop_at_missing(b, i, resolved) ==
    IF i > Len(b.lib_names) THEN resolved
    ELSE LET lib_name == b.lib_names[i]
         IN  IF lib_name \notin DOMAIN binaries
                THEN resolved
                ELSE collect_exports_stop_at_missing(b, i + 1,
                        add_exports(resolved, binaries[lib_name]))

\* lines 101-112: the dictionary resolved of image b after the libraries
\* b.get_lib_names()[i..] were scanned, starting from resolved
RECURSIVE collect_exports(_, _, _)
collect_exports(b, i, resolved) ==
    IF i > Len(b.lib_names) THEN resolved
    ELSE LET lib_name == b.lib_names[i]
         IN  IF lib_name \notin DOMAIN binaries
                THEN collect_exports(b, i + 1, resolved)
                ELSE collect_exports(b, i + 1, add_exports(resolved, binaries[lib_name]))

\* resolved = {} once, before the loop over the images: the images after
\* the main one start from what the main image collected
resolved_of_shared(b) ==
    collect_exports(b, 1,
        IF b.name = MainName THEN [ s \in {} |-> 0 ]
        ELSE collect_exports(binaries[MainName], 1, [ s \in {} |-> 0 ]))

\* resolved is a fresh dictionary for every image, line 99
resolved_of(b) == collect_exports(b, 1, [ s \in {} |-> 0 ])

\* the warnings of lines 103 and 112 for image b
export_warnings(b) ==
    { [ kind |-> "lib not loaded", bin |-> b.name, what |-> n ] :
        n \in { m \in SeqToSet(b.lib_names) : m \notin DOMAIN binaries } }
    \cup
    { [ kind |-> "bad export", bin |-> w[1], what |-> w[2] ] :
        w \in { x \in (SeqToSet(b.lib_names) \cap DOMAIN binaries) \X Symbols :
                  binaries[x[1]].exports[x[2]] = "bad" } }

\* lines 114-119: the imports of b that are patched, and the warnings for the rest
patches_of(b) ==
    [ imp \in { i \in b.imports : i \in DOMAIN resolved_of(b) } |-> resolved_of(b)[imp] ]

import_warnings(b) ==
    { [ kind |-> "unresolved import", bin |-> b.name, what |-> imp ] :
        imp \in { i \in b.imports : i \notin DOMAIN resolved_of(b) } }

\* Project.resolve_imports_from_libs, lines 97-119
resolve_imports_from_libs ==
    /\ pc = "resolve"
    /\ patched' = [ n \in DOMAIN binaries |-> patches_of(binaries[n]) ]
    /\ warnings' = UNION { export_warnings(binaries[n]) \cup import_warnings(binaries[n]) :
                            n \in DOMAIN binaries }
    /\ pc' = "constructed"
    /\ UNCHANGED <<fs, loadvars, crawlvars, stubvars>>

Next ==
    \/ load_libs_enter
    \/ load_libs_iter
    \/ load_libs_exit
    \/ resolve_imports_from_libs

Spec == Init /\ [][Next]_vars

\* __init__ runs to completion: a single thread that is never blocked
FairSpec == Spec /\ WF_vars(Next)

ResolveSpec == ResolveInit /\ [][Next]_vars

(***************************************************************************)
(* make_refs                                                               *)
(***************************************************************************)

\* A reference reported by s.refs(): r.inst_addr, r.addr (symbolic or the
\* concrete value r.addr.any()) and r.size in bits.
SymbolicRef(a) == [ inst_addr |-> a, symbolic |-> TRUE, addr |-> 0, size |-> 8 ]
ConcreteRefs(a, T, Z) ==
    { [ inst_addr |-> a, symbolic |-> FALSE, addr |-> t, size |-> z ] : t \in T, z \in Z }

\* the references a block at a may report, by kind: reads and writes of
\* 0x4000, jumps to every address, memory references to every address but
\* the entry, and a symbolic reference of each kind
DataRefs(a) == ConcreteRefs(a, {16384}, {8, 16}) \cup {SymbolicRef(a)}
WriteRefs(a) == ConcreteRefs(a, {16384}, {8}) \cup {SymbolicRef(a)}
JumpRefs(a) == ConcreteRefs(a, Addrs, {8}) \cup {SymbolicRef(a)}
MemRefs(a) == ConcreteRefs(a, Addrs \ {EntryAddr}, {8}) \cup {SymbolicRef(a)}

\* the references refs as history entries of the given kind
Tagged(kind, refs) == [ i \in DOMAIN refs |-> [ kind |-> kind, ref |-> refs[i] ] ]

\* table[key].append(val) on a defaultdict(list).  A list item is a tuple:
\* an address alone is <<a>>, a pair (a, n) is <<a, n>>.
add(table, key, val) ==
    IF key \in DOMAIN table
        THEN [ table EXCEPT ![key] = Append(@, val) ]
        ELSE (key :> <<val>>) @@ table

\* for i in range(lo, hi): table[i].append(val)
RECURSIVE add_range(_, _, _, _)
add_range(table, lo, hi, val) ==
    IF lo >= hi THEN table
    ELSE add_range(add(table, lo, val), lo + 1, hi, val)

\* The loop body works on c = [t: the tables, rem: remaining_addrs,
\* sb: sim_blocks, log: mem_log]; st is s.state.

read_ref_inclusive(c, r, st) ==
    IF r.symbolic THEN c
    ELSE LET from1 == add(c.t.data_reads_from, r.inst_addr, <<r.addr, r.size \div 8>>)
             to1 == add_range(c.t.data_reads_to, r.addr, r.addr + r.size \div 8 + 1,
                              <<r.inst_addr>>)
         IN  [ c EXCEPT !.t.data_reads_from = from1, !.t.data_reads_to = to1 ]

read_ref_in_view(c, r, st) ==
    IF r.symbolic \/ r.addr \notin DOMAIN perm THEN c
    ELSE LET from1 == add(c.t.data_reads_from, r.inst_addr, <<r.addr, r.size \div 8>>)
             to1 == add_range(c.t.data_reads_to, r.addr, r.addr + r.size \div 8,
                              <<r.inst_addr>>)
         IN  [ c EXCEPT !.t.data_reads_from = from1, !.t.data_reads_to = to1 ]

\* lines 294-304
read_ref(c, r, st) ==
    IF r.symbolic THEN c
    ELSE LET val_to == r.addr
             val_from == r.inst_addr
             from1 == add(c.t.data_reads_from, val_from, <<val_to, r.size \div 8>>)
             to1 == add_range(c.t.data_reads_to, val_to, val_to + r.size \div 8, <<val_from>>)
         IN  [ c EXCEPT !.t.data_reads_from = from1, !.t.data_reads_to = to1 ]

\* lines 307-317
write_ref(c, r, st) ==
    IF r.symbolic THEN c
    ELSE LET val_to == r.addr
             val_from == r.inst_addr
             to1 == add(c.t.data_writes_to, val_to, <<val_from, r.size \div 8>>)
             to2 == add_range(to1, val_to, val_to + r.size \div 8, <<val_from>>)
         IN  [ c EXCEPT !.t.data_writes_to = to2 ]

code_ref_executable_only(c, r, st) ==
    IF r.symbolic THEN c
    ELSE LET c1 == [ c EXCEPT !.t.code_refs_to = add(@, r.addr, <<r.inst_addr>>),
                              !.t.code_refs_from = add(@, r.inst_addr, <<r.addr>>) ]
         IN  IF r.addr \notin c.sb /\ r.addr \in DOMAIN perm /\ perm[r.addr] % 2 = 1
                THEN [ c1 EXCEPT !.rem = Append(@, [ addr |-> r.addr, state |-> st ]),
                                 !.sb = @ \cup {r.addr} ]
                ELSE c1

code_ref_to_once(c, r, st) ==
    IF r.symbolic THEN c
    ELSE LET c1 == [ c EXCEPT !.t.code_refs_from = add(@, r.inst_addr, <<r.addr>>) ]
         IN  IF r.addr \notin c.sb
                THEN [ c1 EXCEPT !.t.code_refs_to = add(@, r.addr, <<r.inst_addr>>),
                                 !.rem = Append(@, [ addr |-> r.addr, state |-> st ]),
                                 !.sb = @ \cup {r.addr} ]
                ELSE c1

code_ref_follow_symbolic(c, r, st) ==
    LET c1 == [ c EXCEPT !.t.code_refs_to = add(@, r.addr, <<r.inst_addr>>),
                         !.t.code_refs_from = add(@, r.inst_addr, <<r.addr>>) ]
    IN  IF r.addr \notin c.sb
           THEN [ c1 EXCEPT !.rem = Append(@, [ addr |-> r.addr, state |-> st ]),
                            !.sb = @ \cup {r.addr} ]
           ELSE c1

code_ref_no_mark(c, r, st) ==
    IF r.symbolic THEN c
    ELSE LET c1 == [ c EXCEPT !.t.code_refs_to = add(@, r.addr, <<r.inst_addr>>),
                              !.t.code_refs_from = add(@, r.inst_addr, <<r.addr>>) ]
         IN  IF r.addr \notin c.sb
                THEN [ c1 EXCEPT !.rem = Append(@, [ addr |-> r.addr, state |-> st ]) ]
                ELSE c1

\* lines 320-335
code_ref(c, r, st) ==
    IF r.symbolic THEN c
    ELSE LET val_to == r.addr
             val_from == r.inst_addr
             c1 == [ c EXCEPT !.t.code_refs_to = add(@, val_to, <<val_from>>),
                              !.t.code_refs_from = add(@, val_from, <<val_to>>) ]
         IN  IF val_to \notin c.sb
                THEN [ c1 EXCEPT !.rem = Append(@, [ addr |-> val_to, state |-> st ]),
                                 !.sb = @ \cup {val_to} ]
                ELSE c1

mem_ref_any_perm(c, r, st) ==
    IF r.symbolic THEN c
    ELSE LET c1 == [ c EXCEPT !.t.memory_refs_to = add(@, r.addr, <<r.inst_addr>>),
                              !.t.memory_refs_from = add(@, r.inst_addr, <<r.addr>>) ]
         IN  IF r.addr \notin c.sb /\ r.addr \in DOMAIN perm
                THEN [ c1 EXCEPT !.rem = Append(@, [ addr |-> r.addr, state |-> st ]),
                                 !.sb = @ \cup {r.addr} ]
                ELSE c1

\* lines 338-359
mem_ref(c, r, st) ==
    IF r.symbolic THEN c
    ELSE LET val_to == r.addr
             val_from == r.inst_addr
             c1 == [ c EXCEPT !.t.memory_refs_to = add(@, val_to, <<val_from>>),
                              !.t.memory_refs_from = add(@, val_from, <<val_to>>) ]
         IN  IF val_to \notin c.sb /\ val_to \in DOMAIN perm /\ perm[val_to] % 2 = 1
                THEN [ c1 EXCEPT !.rem = Append(@, [ addr |-> val_to, state |-> st ]),
                                 !.sb = @ \cup {val_to} ]
                ELSE c1

\* the addresses on a worklist
Queued(rem) == { rem[i].addr : i \in DOMAIN rem }

\* mem_ref, and a note in the history of what it did with the target: whether
\* the target had been on the worklist before, and whether it was appended
mem_ref_logged(c, r, st) ==
    LET c1 == mem_ref(c, r, st)
    IN  IF r.symbolic THEN c1
        ELSE [ c1 EXCEPT !.log = @ \cup
                 { [ addr |-> r.addr,
                     seen |-> r.addr \in SeqToSet(popped) \cup {c.cur} \cup Queued(c.rem),
                     queued |-> Len(c1.rem) > Len(c.rem) ] } ]

\* for r in refs: c = Op(c, r, st)
RECURSIVE track(_, _, _, _, _)
track(Op(_, _, _), c, refs, i, st) ==
    IF i > Len(refs) THEN c
    ELSE track(Op, Op(c, refs[i], st), refs, i + 1, st)

\* lines 291-359: the block at a was lifted and run, and reports refs
analyze(c, a, refs) ==
    LET c1 == track(read_ref, c, refs.reads, 1, a)
        c2 == track(write_ref, c1, refs.writes, 1, a)
        c3 == track(code_ref, c2, refs.code, 1, a)
        c4 == track(mem_ref_logged, c3, refs.mem, 1, a)
    IN  c4

on_failure_raise(rest) == [ rem |-> rest, pc |-> "raised" ]

on_failure_break(rest) == [ rem |-> <<>>, pc |-> "make_refs" ]

\* lines 286-288: the exception of sim_block is caught and the loop continues
\* with the rest of the worklist
on_failure(rest) == [ rem |-> rest, pc |-> "make_refs" ]

\* MemoryDict.pull(): every address of the binaries the view holds is brought
\* into the view with the flags they give; what else the view holds stays
pull(view, backing) == backing @@ view

\* Project.save_mem, lines 46-51: pulls the views and pickles them to mem.p
save_mem ==
    /\ pc \in {"constructed", "crawled"}
    /\ perm' = pull(perm, image_perm)
    /\ mem_file' = << pull(perm, image_perm) >>
    /\ UNCHANGED <<fs, loadvars, resolvevars, stubvars, pc, entry, image_perm,
                   remaining_addrs, sim_blocks, tbl, self_refs, refs_left,
                   popped, failed, mem_log, reports>>

\* Project.load_mem, lines 53-55: replaces the views by the ones in mem.p;
\* open() raises when the file does not exist.  self.perm is then the
\* unpickled object, and what a later pull() brings in is what that object
\* holds, not the binaries of this project.  save_mem pulled the view before
\* it pickled it (line 48), so the pickled view holds every flag its
\* binaries give.
load_mem ==
    /\ pc \in {"constructed", "crawled"}
    /\ mem_file # <<>>
    /\ perm' = mem_file[1]
    /\ image_perm' = mem_file[1]
    /\ UNCHANGED <<fs, loadvars, resolvevars, stubvars, pc, entry, mem_file,
                   remaining_addrs, sim_blocks, tbl, self_refs, refs_left,
                   popped, failed, mem_log, reports>>

\* make_refs up to the loop, lines 260-279.  The method can be called again
\* on a crawled project: it pulls again and starts over with an empty
\* analyzed set and empty tables, while the attributes the call before
\* published stay until this call publishes.  popped, failed, mem_log and
\* reports are the history of the call that is running.
make_refs_start ==
    /\ pc \in {"constructed", "crawled"}
    /\ perm' = pull(perm, image_perm)
    /\ remaining_addrs' = << [ addr |-> entry, state |-> 0 ] >>
    /\ sim_blocks' = {}
    /\ tbl' = NoTables
    /\ popped' = <<>>
    /\ failed' = {}
    /\ mem_log' = {}
    /\ reports' = <<>>
    /\ pc' = "make_refs"
    /\ UNCHANGED <<fs, loadvars, resolvevars, stubvars, entry, image_perm, mem_file,
                   self_refs, refs_left>>

\* one iteration of the while loop of make_refs, lines 281-359
make_refs_iter ==
    /\ pc = "make_refs"
    /\ remaining_addrs # <<>>
    /\ LET a == remaining_addrs[Len(remaining_addrs)].addr
           rest == SubSeq(remaining_addrs, 1, Len(remaining_addrs) - 1)
       IN  /\ popped' = Append(popped, a)
           /\ \/ /\ failed' = failed \cup {a}
                 /\ remaining_addrs' = on_failure(rest).rem
                 /\ pc' = on_failure(rest).pc
                 /\ UNCHANGED <<sim_blocks, tbl, refs_left, mem_log, reports>>
              \/ \E kr \in 0..refs_left :
                 \E kw \in 0..(refs_left - kr) :
                 \E kc \in 0..(refs_left - kr - kw) :
                 \E km \in 0..(refs_left - kr - kw - kc) :
                 \E rs \in [ 1..kr -> DataRefs(a) ], ws \in [ 1..kw -> WriteRefs(a) ],
                    cs \in [ 1..kc -> JumpRefs(a) ], ms \in [ 1..km -> MemRefs(a) ] :
                    LET c == analyze([ t |-> tbl, rem |-> rest, sb |-> sim_blocks \cup {a},
                                       log |-> mem_log, cur |-> a ],
                                     a, [ reads |-> rs, writes |-> ws, code |-> cs, mem |-> ms ])
                    IN  /\ tbl' = c.t
                        /\ remaining_addrs' = c.rem
                        /\ sim_blocks' = c.sb
                        /\ mem_log' = c.log
                        /\ refs_left' = refs_left - (kr + kw + kc + km)
                        /\ reports' = reports \o Tagged("read", rs) \o Tagged("write", ws)
                                          \o Tagged("code", cs) \o Tagged("mem", ms)
                        /\ UNCHANGED <<failed, pc>>
    /\ UNCHANGED <<fs, loadvars, resolvevars, stubvars, entry, perm, image_perm, mem_file,
                   self_refs>>

\* the end of make_refs, lines 361-369
make_refs_publish ==
    /\ pc = "make_refs"
    /\ remaining_addrs = <<>>
    /\ self_refs' = [ n \in TableNames \cup {"static_block_addrs"} |->
                        IF n = "static_block_addrs" THEN sim_blocks ELSE tbl[n] ]
    /\ pc' = "crawled"
    /\ UNCHANGED <<fs, loadvars, resolvevars, stubvars, entry, perm, image_perm, mem_file,
                   remaining_addrs, sim_blocks, tbl, refs_left, popped, failed, mem_log,
                   reports>>

\* A project constructed with load_libs=False around a main image at
\* 0x1000..0x3fff whose entry point is 0x1000.  The views are empty until
\* they are pulled; the directory may hold a mem.p that another project saved.
CrawlInit ==
    /\ fs = (MainName :> [ min_addr |-> 4096, max_addr |-> 16383, lib_names |-> <<>>,
                           exports |-> NoExports, imports |-> {} ])
    /\ binaries = (MainName :> Binary(MainName))
    /\ min_addr = fs[MainName].min_addr
    /\ max_addr = fs[MainName].max_addr
    /\ remaining_libs = {}
    /\ done_libs = {}
    /\ pc = "constructed"
    /\ loads = [ n \in Names |-> IF n = MainName THEN 1 ELSE 0 ]
    /\ rebases = [ n \in Names |-> 0 ]
    /\ placed = << Binary(MainName) >>
    /\ patched = [ n \in {} |-> 0 ]
    /\ warnings = {}
    /\ entry = EntryAddr
    /\ perm = <<>>
    /\ image_perm = ExamplePerm
    /\ mem_file \in { <<>>, <<SavedPerm>> }
    /\ NotCrawled
    /\ NotStubbed

CrawlNext ==
    \/ save_mem
    \/ load_mem
    \/ make_refs_start
    \/ make_refs_iter
    \/ make_refs_publish

CrawlSpec == CrawlInit /\ [][CrawlNext]_vars

\* make_refs runs to completion: a single thread that is never blocked
FairCrawlSpec == CrawlSpec /\ WF_vars(CrawlNext)

(***************************************************************************)
(* Stubbed imports: Project(filename, load_libs=False,                     *)
(* use_sim_procedures=True)                                                *)
(***************************************************************************)

\* the 8-byte import table slots of the main binary
Slots == {8192, 8200, 8208}

\* a set of addresses as a list in ascending order
RECURSIVE Ascending(_)
Ascending(S) ==
    IF S = {} THEN <<>>
    ELSE LET lo == CHOOSE x \in S : \A y \in S : x <= y
         IN  <<lo>> \o Ascending(S \ {lo})

\* m.update(lib + "_" + func_name); m.digest()[ : 8]: the first 8 bytes of
\* the MD5 digests of the names the model uses
md5_digest8 ==
    [ liba |-> [ f |-> <<47, 77, 4, 214, 79, 137, 121, 179>>,
                 g |-> <<65, 148, 211, 40, 222, 144, 255, 14>> ],
      libb |-> [ f |-> <<161, 150, 120, 178, 84, 111, 84, 92>>,
                 g |-> <<60, 37, 223, 37, 104, 147, 196, 228>> ] ]

unpack_Q_big_endian(bytes) == [ k \in 1..4 |-> bytes[10 - 2 * k] + 256 * bytes[9 - 2 * k] ]

\* struct.unpack("<Q", hashed_bytes)[0]: byte n has weight 256^n.  The
\* 64-bit value is held as its four 16-bit limbs, least significant first.
unpack_Q(bytes) == [ k \in 1..4 |-> bytes[2 * k - 1] + 256 * bytes[2 * k] ]

\* for addr in plt_addrs: for n, p in enumerate(hashed_bytes):
\*     binary.ida.mem[addr + n] = p
RECURSIVE write_sites(_, _, _, _)
write_sites(mem, plt_addrs, i, hashed_bytes) ==
    IF i > Len(plt_addrs) THEN mem
    ELSE LET addr == plt_addrs[i]
         IN  write_sites([ a \in addr .. (addr + 7) |-> hashed_bytes[a - addr + 1] ] @@ mem,
                         plt_addrs, i + 1, hashed_bytes)

\* SimProcedures[lib_name][imp]: the SimProcedure class of a stubbed function
procedure(lib_name, imp) == [ lib |-> lib_name, name |-> imp ]

\* set_sim_procedure on m = [sp: self.sim_procedures, mem: binary.ida.mem]
set_sim_procedure(m, lib, func_name, sim_proc) ==
    LET plt_addrs == import_addrs[func_name]
        hashed_bytes == md5_digest8[lib][func_name]
        pseudo_addr == unpack_Q(hashed_bytes)
    IN  [ sp |-> (pseudo_addr :> sim_proc) @@ m.sp,
          mem |-> write_sites(m.mem, plt_addrs, 1, hashed_bytes) ]

is_sim_procedure(hashed_addr) == hashed_addr \in DOMAIN sim_procedures

\* for imp, _ in binary.get_imports(): if imp in functions: ...
RECURSIVE stub_imports(_, _, _)
stub_imports(m, lib_name, imps) ==
    IF imps = {} THEN m
    ELSE LET imp == CHOOSE x \in imps : TRUE
             m1 == IF imp \in procedures[lib_name]
                      THEN set_sim_procedure(m, lib_name, imp, procedure(lib_name, imp))
                      ELSE m
         IN  stub_imports(m1, lib_name, imps \ {imp})

\* for lib_name in binary.get_lib_names(): if lib_name in SimProcedures: ...
RECURSIVE stub_libs(_, _, _)
stub_libs(m, binary, i) ==
    IF i > Len(binary.lib_names) THEN m
    ELSE LET lib_name == binary.lib_names[i]
             m1 == IF lib_name \in DOMAIN procedures
                      THEN stub_imports(m, lib_name, binary.imports)
                      ELSE m
         IN  stub_libs(m1, binary, i + 1)

\* lines 122-134, for the main binary only
resolve_imports_using_sim_procedures ==
    /\ pc = "resolve_sim"
    /\ LET binary == binaries[MainName]
           m == stub_libs([ sp |-> sim_procedures, mem |-> ida_mem ], binary, 1)
       IN  /\ sim_procedures' = m.sp
           /\ ida_mem' = m.mem
    /\ pc' = "constructed"
    /\ UNCHANGED <<fs, loadvars, resolvevars, crawlvars, procedures, import_addrs>>

\* The main binary declares up to two libraries and imports f, g or both;
\* every imported function has one or more slots of the import table; the
\* registry of SimProcedures knows any subset of the libraries and functions.
StubInit ==
    /\ fs \in { (MainName :> [ min_addr |-> 4096, max_addr |-> 16383, lib_names |-> d,
                               exports |-> NoExports, imports |-> i ]) :
                d \in DepPerms(LibNames), i \in SUBSET Symbols }
    /\ binaries = (MainName :> Binary(MainName))
    /\ min_addr = fs[MainName].min_addr
    /\ max_addr = fs[MainName].max_addr
    /\ remaining_libs = {}
    /\ done_libs = {}
    /\ pc = "resolve_sim"
    /\ loads = [ n \in Names |-> IF n = MainName THEN 1 ELSE 0 ]
    /\ rebases = [ n \in Names |-> 0 ]
    /\ placed = << Binary(MainName) >>
    /\ patched = [ n \in {} |-> 0 ]
    /\ warnings = {}
    /\ entry = EntryAddr
    /\ NotPulled
    /\ NotCrawled
    /\ procedures \in UNION { [ L -> SUBSET Symbols ] : L \in SUBSET LibNames }
    /\ import_addrs \in
        { [ s \in fs[MainName].imports |-> Ascending({ a \in Slots : so[a] = s }) ] :
          so \in { x \in [ Slots -> Symbols ] :
                     \A s \in fs[MainName].imports : \E a \in Slots : x[a] = s } }
    /\ sim_procedures = [ n \in {} |-> 0 ]
    /\ ida_mem = [ n \in {} |-> 0 ]

StubNext == resolve_imports_using_sim_procedures

StubSpec == StubInit /\ [][StubNext]_vars

(***************************************************************************)
(* Address-space assembly                                                  *)
(***************************************************************************)

Overlap(a, b) == ~ (a.max_addr < b.min_addr \/ b.max_addr < a.min_addr)

LoadLibsDone == pc \in {"resolve", "constructed"}

\* C1: no two images held in self.binaries have overlapping
\* [min_addr, max_addr] ranges, whatever the dependency graph and the
\* natural ranges of the files.
C1_NoOverlap ==
    \A a, b \in DOMAIN binaries :
        a # b => ~ Overlap(binaries[a], binaries[b])

\* all three images are held, and two libraries had overlapping natural ranges
C1_Witness ==
    /\ LoadLibsDone
    /\ DOMAIN binaries = Names
    /\ rebases[MainName] = 0
    /\ Overlap(fs["liba"], fs["libb"])
    /\ Overlap(fs["liba"], fs[MainName])

\* the placements whose image is still held in self.binaries
Held == { i \in DOMAIN placed : binaries[placed[i].name] = placed[i] }

\* C2: an image placed after another begins at or above the end of the
\* earlier image plus granularity.
C2_HeadroomGranularity ==
    \A i, j \in Held :
        i < j => placed[j].min_addr >= placed[i].max_addr + granularity

\* C3: every library placed by load_libs keeps its natural min_addr
\* modulo granularity.
C3_AlignmentPreserved ==
    \A i \in DOMAIN placed :
        i >= 2 => placed[i].min_addr % granularity
                    = fs[placed[i].name].min_addr % granularity

\* a library with a non-zero offset was moved, above an envelope that did
\* not end on a granularity boundary
C3_Witness ==
    /\ Len(placed) >= 3
    /\ placed[3].min_addr # fs[placed[3].name].min_addr
    /\ placed[3].min_addr % granularity # 0
    /\ (placed[2].max_addr + 1) % granularity # 0

\* The names reachable from the main image through the dependency lists of
\* the files that exist.
RECURSIVE Closure(_)
Closure(S) ==
    LET T == S \cup UNION { SeqToSet(fs[n].lib_names) : n \in S \cap DOMAIN fs }
    IN  IF T = S THEN S ELSE Closure(T)

ReachableDeps == Closure(SeqToSet(fs[MainName].lib_names))

\* C4: when load_libs has finished, every reachable dependency that exists
\* was loaded and rebased once, and no image, the main image included, was
\* loaded or rebased a second time.
C4_LoadedExactlyOnce ==
    LoadLibsDone =>
        /\ \A n \in ReachableDeps \cap DOMAIN fs : n \in DOMAIN binaries /\ rebases[n] = 1
        /\ \A n \in Names : loads[n] <= 1 /\ rebases[n] <= 1

\* C5: load_libs terminates for every dependency graph, cyclic ones included.
C5_LoadLibsTerminates == <>LoadLibsDone

\* load_libs has finished on a graph in which two loaded libraries depend
\* on each other and one of them on itself
C5_Witness ==
    /\ LoadLibsDone
    /\ LibNames \subseteq DOMAIN binaries
    /\ "libb" \in SeqToSet(binaries["liba"].lib_names)
    /\ "liba" \in SeqToSet(binaries["libb"].lib_names)
    /\ "liba" \in SeqToSet(binaries["liba"].lib_names)

(***************************************************************************)
(* Import resolution                                                       *)
(***************************************************************************)

\* the positions in b's dependency list of the loaded libraries that export
\* imp with an address
MatchingLibs(b, imp) ==
    { i \in DOMAIN b.lib_names :
        /\ b.lib_names[i] \in DOMAIN binaries
        /\ binaries[b.lib_names[i]].exports[imp] = "ok" }

LastOf(S) == CHOOSE i \in S : \A j \in S : j <= i

UnresolvedWarning(n, imp) == [ kind |-> "unresolved import", bin |-> n, what |-> imp ]

\* C6: once resolve_imports_from_libs has run, an import with a matching
\* export (one whose address can be obtained) in a loaded declared library
\* is patched to that export's address, the last such library in the
\* dependency list deciding, and any other import is left unpatched and
\* reported by a warning; resolution completes for all imports and images.
C6_ImportsResolved ==
    pc = "constructed" =>
        /\ DOMAIN patched = DOMAIN binaries
        /\ \A n \in DOMAIN binaries : \A imp \in binaries[n].imports :
            LET b == binaries[n]
                M == MatchingLibs(b, imp)
            IN  IF M # {}
                  THEN /\ imp \in DOMAIN patched[n]
                       /\ patched[n][imp] =
                            binaries[b.lib_names[LastOf(M)]].min_addr + SymbolOffset[imp]
                       /\ UnresolvedWarning(n, imp) \notin warnings
                  ELSE /\ imp \notin DOMAIN patched[n]
                       /\ UnresolvedWarning(n, imp) \in warnings

\* the main image has one import patched from a library whose other export
\* has no obtainable address, and one import left unresolved with a warning
C6_Witness ==
    /\ pc = "constructed"
    /\ "liba" \in DOMAIN binaries
    /\ binaries["liba"].exports = [ f |-> "ok", g |-> "bad" ]
    /\ binaries[MainName].lib_names = <<"liba">>
    /\ DOMAIN patched[MainName] = {"f"}
    /\ patched[MainName]["f"] = binaries["liba"].min_addr + 16
    /\ UnresolvedWarning(MainName, "g") \in warnings
    /\ [ kind |-> "bad export", bin |-> "liba", what |-> "g" ] \in warnings

(***************************************************************************)
(* Reference crawler                                                       *)
(***************************************************************************)

Executable(a) == a \in DOMAIN perm /\ perm[a] % 2 = 1

\* C7: no address is popped from the worklist (and handed to sim_block)
\* twice, and an address that was popped is never on the worklist again.
C7_NoRevisit ==
    /\ \A i, j \in DOMAIN popped : i # j => popped[i] # popped[j]
    /\ \A i, j \in DOMAIN remaining_addrs :
          i # j => remaining_addrs[i].addr # remaining_addrs[j].addr
    /\ Queued(remaining_addrs) \cap SeqToSet(popped) = {}

\* a finished crawl whose entry block jumps to itself and refers twice to
\* another address, which was then analyzed
C7_Witness ==
    /\ pc = "crawled"
    /\ Len(popped) = 2
    /\ failed = {}
    /\ entry \in DOMAIN tbl.code_refs_to
    /\ \E t \in Addrs \ {entry} :
          t \in DOMAIN tbl.code_refs_to /\ Len(tbl.code_refs_to[t]) = 2

\* C8: a concrete memory-reference target is appended to the worklist if and
\* only if it was never on the worklist before, is in the permission view and
\* is executable there.  The view is the one make_refs pulled: it is compared
\* while make_refs runs, before a later load_mem can replace it.
C8_MemRefQueueing ==
    pc = "make_refs" =>
        \A e \in mem_log : e.queued <=> (~ e.seen /\ Executable(e.addr))

\* under {0x1000: r-x, 0x2000: r-x, 0x3000: rw-}: a memory reference queued
\* 0x2000, and references to 0x3000 and to the absent 0x4000 queued nothing
C8_Witness ==
    /\ perm = ExamplePerm
    /\ [ addr |-> 8192, seen |-> FALSE, queued |-> TRUE ] \in mem_log
    /\ [ addr |-> 12288, seen |-> FALSE, queued |-> FALSE ] \in mem_log
    /\ [ addr |-> 16384, seen |-> FALSE, queued |-> FALSE ] \in mem_log
    /\ 8192 \in SeqToSet(popped)

Published ==
    /\ pc = "crawled"
    /\ remaining_addrs = <<>>
    /\ DOMAIN self_refs = TableNames \cup {"static_block_addrs"}
    /\ \A n \in TableNames : self_refs[n] = tbl[n]
    /\ self_refs["static_block_addrs"] = sim_blocks

\* The distance of a running make_refs from its end: the position in the
\* method, then the number of addresses this call has not popped yet.
Rank == IF pc = "make_refs" THEN 1 ELSE 0
Distance == Rank * (Cardinality(Addrs) + 1) + Cardinality(Addrs \ SeqToSet(popped))

\* C9: whatever the blocks report and whichever blocks fail, the worklist
\* drains and the eight tables and the analyzed set are published: make_refs
\* can always take a step until it has published, and every step of a
\* running make_refs brings that call closer to its end.
C9_CrawlCompletes ==
    /\ [](Published \/ ENABLED (make_refs_start \/ make_refs_iter \/ make_refs_publish))
    /\ [][pc = "make_refs" => Distance' < Distance]_vars
    /\ [](pc = "crawled" => Published)

\* a published crawl in which three addresses were popped, one of them
\* failed, and the blocks reported MaxRefs references
C9_Witness ==
    /\ Published
    /\ Len(popped) >= 3
    /\ failed # {}
    /\ refs_left = 0

\* C10: a failing block adds nothing to the tables, a failed address is
\* never on the worklist again, and every address on the worklist stays on
\* it until it is popped in its turn, so that none is left when the crawl ends.
C10_FailureIsolated ==
    /\ [][pc = "make_refs" /\ failed' # failed => tbl' = tbl]_vars
    /\ [](failed \cap Queued(remaining_addrs) = {})
    /\ [][\A x \in Queued(remaining_addrs) :
            x \in Queued(remaining_addrs') \/ x = popped'[Len(popped')]]_vars
    /\ [](pc = "crawled" => Queued(remaining_addrs) = {})

\* the entry block queued two addresses; the one popped first failed and
\* the other one was popped and analyzed after it
C10_Witness ==
    /\ pc = "crawled"
    /\ Len(popped) = 3
    /\ entry \in DOMAIN tbl.code_refs_from
    /\ Len(tbl.code_refs_from[entry]) = 2
    /\ failed = {popped[2]}
    /\ popped[3] \in DOMAIN tbl.code_refs_from

\* ---- the reference tables against the references the blocks reported ----

\* the concrete references of a kind reported so far
Concrete(kind) ==
    { reports[i].ref : i \in { j \in DOMAIN reports :
                                 reports[j].kind = kind /\ ~reports[j].ref.symbolic } }

\* the items of table[key], none when the key is absent
Items(table, key) == IF key \in DOMAIN table THEN SeqToSet(table[key]) ELSE {}

\* how many times item occurs in table[key]
Count(table, key, item) ==
    IF key \in DOMAIN table
        THEN Cardinality({ i \in DOMAIN table[key] : table[key][i] = item })
        ELSE 0

\* the bytes [T, T + S) a data reference touches
Bytes(r) == r.addr .. (r.addr + r.size \div 8 - 1)

\* C11: a concrete write by instruction I to T of S bytes puts (T, S) in
\* data_writes_from[I] and I in data_writes_to[b] for every byte b of
\* [T, T + S), and data_writes_to holds instruction addresses only.
C11_WritesSymmetric ==
    /\ \A r \in Concrete("write") :
        /\ <<r.addr, r.size \div 8>> \in Items(tbl.data_writes_from, r.inst_addr)
        /\ \A b \in Bytes(r) : <<r.inst_addr>> \in Items(tbl.data_writes_to, b)
    /\ \A b \in DOMAIN tbl.data_writes_to :
        \A item \in Items(tbl.data_writes_to, b) : Len(item) = 1

\* the number of items in all the lists of a table
RECURSIVE SumLen(_, _)
SumLen(table, keys) ==
    IF keys = {} THEN 0
    ELSE LET k == CHOOSE x \in keys : TRUE
         IN  Len(table[k]) + SumLen(table, keys \ {k})
NumItems(table) == SumLen(table, DOMAIN table)

\* the symbolic references reported so far, as history entries
Symbolic == { reports[i] : i \in { j \in DOMAIN reports : reports[j].ref.symbolic } }

\* the addresses a table names: its keys and the addresses in its items
Named(table) ==
    DOMAIN table \cup UNION { { item[1] : item \in Items(table, k) } : k \in DOMAIN table }

\* the addresses the concrete references of a kind name
Touched(kind) ==
    UNION { {r.inst_addr, r.addr} \cup (IF kind \in {"read", "write"} THEN Bytes(r) ELSE {})
            : r \in Concrete(kind) }

\* how many concrete references of a kind were reported
NumConcrete(kind) ==
    Cardinality({ i \in DOMAIN reports : reports[i].kind = kind /\ ~reports[i].ref.symbolic })

\* C12: a reference whose target address is symbolic is skipped whatever its
\* kind: the tables name only addresses of concrete references and hold one
\* entry per concrete reference and direction, and only the entry and the
\* targets of concrete code and memory references are ever discovered or
\* queued.
C12_SymbolicSkipped ==
    /\ Named(tbl.data_reads_from) \cup Named(tbl.data_reads_to) \subseteq Touched("read")
    /\ Named(tbl.data_writes_from) \cup Named(tbl.data_writes_to) \subseteq Touched("write")
    /\ Named(tbl.code_refs_from) \cup Named(tbl.code_refs_to) \subseteq Touched("code")
    /\ Named(tbl.memory_refs_from) \cup Named(tbl.memory_refs_to) \subseteq Touched("mem")
    /\ NumItems(tbl.data_reads_from) = NumConcrete("read")
    /\ NumItems(tbl.code_refs_from) = NumConcrete("code")
    /\ NumItems(tbl.code_refs_to) = NumConcrete("code")
    /\ NumItems(tbl.memory_refs_from) = NumConcrete("mem")
    /\ NumItems(tbl.memory_refs_to) = NumConcrete("mem")
    /\ sim_blocks \cup Queued(remaining_addrs) \subseteq
            {entry} \cup { r.addr : r \in Concrete("code") \cup Concrete("mem") }

\* the crawl ended after the entry block reported a symbolic read, a symbolic
\* jump and a symbolic memory reference: the tables are empty and the entry
\* is the only address discovered
C12_Witness ==
    /\ pc = "crawled"
    /\ { x.kind : x \in Symbolic } = {"read", "code", "mem"}
    /\ Len(reports) = 3
    /\ tbl = NoTables
    /\ sim_blocks = {entry}
    /\ popped = <<entry>>

\* C13: code_refs_to is the inverse of code_refs_from with multiplicities:
\* T is in code_refs_from[I] as many times as I is in code_refs_to[T]; and
\* when the entry block E reports one concrete jump to T and nothing else
\* transfers control, the crawl publishes code_refs_from = {E: [T]},
\* code_refs_to = {T: [E]} and the analyzed set {E, T}.
C13_CodeRefsInverse ==
    /\ LET named == Named(tbl.code_refs_from) \cup Named(tbl.code_refs_to)
       IN  \A i, t \in named :
               Count(tbl.code_refs_from, i, <<t>>) = Count(tbl.code_refs_to, t, <<i>>)
    /\ \A t \in Addrs \ {entry} :
        (/\ pc = "crawled"
         /\ { x \in SeqToSet(reports) : x.kind \in {"code", "mem"} /\ ~x.ref.symbolic } =
                { [ kind |-> "code",
                    ref |-> [ inst_addr |-> entry, symbolic |-> FALSE, addr |-> t, size |-> 8 ] ] }
         /\ Cardinality({ j \in DOMAIN reports : reports[j].kind = "code"
                                                  /\ ~reports[j].ref.symbolic }) = 1)
        => /\ self_refs["code_refs_from"] = (entry :> << <<t>> >>)
           /\ self_refs["code_refs_to"] = (t :> << <<entry>> >>)
           /\ self_refs["static_block_addrs"] = {entry, t}

\* the entry 0x1000 jumped once to 0x2000, whose block was analyzed and
\* reported no control transfer
C13_Witness ==
    /\ pc = "crawled"
    /\ entry = 4096
    /\ popped = <<4096, 8192>>
    /\ failed = {}
    /\ self_refs["code_refs_from"] = (4096 :> << <<8192>> >>)
    /\ self_refs["code_refs_to"] = (8192 :> << <<4096>> >>)
    /\ self_refs["static_block_addrs"] = {4096, 8192}

\* an address outside every loaded image and absent from the permission view
OutOfRange(a) ==
    /\ a \notin DOMAIN perm
    /\ \A n \in DOMAIN binaries : a < binaries[n].min_addr \/ a > binaries[n].max_addr

\* C14 as stated: a concrete read or write whose target is out of range
\* leaves no entry in data_reads_to/from or data_writes_to/from.
C14_OutOfRangeExcluded ==
    /\ \A r \in Concrete("read") :
        OutOfRange(r.addr) =>
            /\ <<r.addr, r.size \div 8>> \notin Items(tbl.data_reads_from, r.inst_addr)
            /\ \A b \in Bytes(r) : b \notin DOMAIN tbl.data_reads_to
    /\ \A r \in Concrete("write") :
        OutOfRange(r.addr) =>
            /\ <<r.addr, r.size \div 8>> \notin Items(tbl.data_writes_from, r.inst_addr)
            /\ \A b \in Bytes(r) : b \notin DOMAIN tbl.data_writes_to

\* C14 amended: an out-of-range access is recorded like an in-range one, a
\* read in data_reads_from and data_reads_to and a write in data_writes_to,
\* and the block that made it is not a failed one.
C14_OutOfRangeRecorded ==
    /\ \A r \in Concrete("read") :
        OutOfRange(r.addr) =>
            /\ <<r.addr, r.size \div 8>> \in Items(tbl.data_reads_from, r.inst_addr)
            /\ \A b \in Bytes(r) : <<r.inst_addr>> \in Items(tbl.data_reads_to, b)
            /\ r.inst_addr \notin failed
    /\ \A r \in Concrete("write") :
        OutOfRange(r.addr) =>
            /\ \A b \in Bytes(r) : <<r.inst_addr>> \in Items(tbl.data_writes_to, b)
            /\ r.inst_addr \notin failed

\* the entry block read two bytes at 0x4000 and wrote one byte there, with
\* the image ending at 0x3fff and no page at 0x4000 in the view; the crawl
\* ended with both accesses in the tables
C14_Witness ==
    /\ pc = "crawled"
    /\ OutOfRange(16384) /\ OutOfRange(16385)
    /\ [ inst_addr |-> entry, symbolic |-> FALSE, addr |-> 16384, size |-> 16 ]
            \in Concrete("read")
    /\ [ inst_addr |-> entry, symbolic |-> FALSE, addr |-> 16384, size |-> 8 ]
            \in Concrete("write")
    /\ self_refs["data_reads_from"][entry] = << <<16384, 2>> >>
    /\ DOMAIN self_refs["data_reads_to"] = {16384, 16385}
    /\ 16384 \in DOMAIN self_refs["data_writes_to"]

\* ---- stubbed imports ----

\* the 8 bytes at an import site, and their unsigned little-endian value
SiteBytes(a) == [ n \in 1..8 |-> ida_mem[a + n - 1] ]
LittleEndian(bytes) == <<bytes[1] + 256 * bytes[2], bytes[3] + 256 * bytes[4],
                         bytes[5] + 256 * bytes[6], bytes[7] + 256 * bytes[8]>>

\* the declared libraries whose SimProcedures stub the function imp
StubLibs(imp) ==
    { l \in SeqToSet(binaries[MainName].lib_names) \cap DOMAIN procedures :
        imp \in procedures[l] }

\* C15: after resolve_imports_using_sim_procedures, every import site of
\* every stubbed function holds 8 bytes whose little-endian value is a key
\* of self.sim_procedures (is_sim_procedure is true for it) mapped to the
\* SimProcedure of that function, at each one of the function's sites.
C15_StubSitesPatched ==
    pc = "constructed" =>
        \A imp \in binaries[MainName].imports \cap DOMAIN import_addrs :
            StubLibs(imp) # {} =>
                \A i \in DOMAIN import_addrs[imp] :
                    LET a == import_addrs[imp][i]
                    IN  /\ a .. (a + 7) \subseteq DOMAIN ida_mem
                        /\ is_sim_procedure(LittleEndian(SiteBytes(a)))
                        /\ sim_procedures[LittleEndian(SiteBytes(a))]
                                \in { procedure(l, imp) : l \in StubLibs(imp) }

\* f has two import sites and g one, liba stubs f and libb stubs g: the
\* three sites hold the digests of liba_f and libb_g
C15_Witness ==
    /\ pc = "constructed"
    /\ DOMAIN import_addrs = {"f", "g"}
    /\ Len(import_addrs["f"]) = 2
    /\ StubLibs("f") = {"liba"} /\ StubLibs("g") = {"libb"}
    /\ \A i \in 1..2 : SiteBytes(import_addrs["f"][i]) = md5_digest8["liba"]["f"]
    /\ SiteBytes(import_addrs["g"][1]) = md5_digest8["libb"]["g"]
    /\ DOMAIN sim_procedures = { <<19759, 54788, 35151, 45945>>, <<9532, 9695, 37736, 58564>> }

\* ---- missing dependency files ----

\* the declared libraries of image b that are not in the search directory
Missing(b) == { n \in SeqToSet(b.lib_names) : ~exists(n) }

\* C16: a dependency whose file does not exist is never an error.  load_libs
\* can always go on; the iteration that pops a missing name changes no image,
\* no placement and no address bound; no image is ever held for a missing
\* name; and after resolution every image that declares a missing library
\* has the "lib not loaded" warning for it, gets its imports patched from
\* its other libraries only, and keeps the remaining imports unresolved.
C16_MissingDependency ==
    /\ [](pc = "load_libs" => ENABLED (load_libs_iter \/ load_libs_exit))
    /\ [][\A n \in remaining_libs \ remaining_libs' :
            ~exists(n) => UNCHANGED <<binaries, min_addr, max_addr, placed, done_libs>>]_vars
    /\ [](\A n \in DOMAIN binaries : exists(n))
    /\ [](pc = "constructed" =>
            \A n \in DOMAIN binaries :
                LET b == binaries[n]
                IN  /\ \A m \in Missing(b) :
                        [ kind |-> "lib not loaded", bin |-> n, what |-> m ] \in warnings
                    /\ \A imp \in b.imports :
                        IF MatchingLibs(b, imp) # {}
                            THEN /\ imp \in DOMAIN patched[n]
                                 /\ \E i \in MatchingLibs(b, imp) :
                                        patched[n][imp] =
                                            get_symbol_addr(binaries[b.lib_names[i]], imp)
                            ELSE /\ imp \notin DOMAIN patched[n]
                                 /\ UnresolvedWarning(n, imp) \in warnings)

\* main declares liba, whose file is missing, and then libb, which exports
\* f: libb alone was loaded, f is patched from it, g stays unresolved
C16_Witness ==
    /\ pc = "constructed"
    /\ binaries[MainName].lib_names = <<"liba", "libb">>
    /\ ~exists("liba")
    /\ DOMAIN binaries = {MainName, "libb"}
    /\ binaries[MainName].imports = {"f", "g"}
    /\ binaries["libb"].exports = [ f |-> "ok", g |-> "none" ]
    /\ [ kind |-> "lib not loaded", bin |-> MainName, what |-> "liba" ] \in warnings
    /\ DOMAIN patched[MainName] = {"f"}
    /\ UnresolvedWarning(MainName, "g") \in warnings

\* ---- what the crawl publishes ----

\* the addresses whose block was lifted and executed (line 291 reached)
Succeeded == SeqToSet(popped) \ failed

\* C17: when the worklist has drained, static_block_addrs holds exactly the
\* addresses whose analysis succeeded and none whose lift or execution
\* failed.
C17_AnalyzedOnlyOnSuccess ==
    pc = "crawled" =>
        /\ self_refs["static_block_addrs"] = Succeeded
        /\ self_refs["static_block_addrs"] \cap failed = {}

\* ---- which libraries an image resolves against ----

\* the loaded images that b lists as dependencies, and the others
Declared(b) == SeqToSet(b.lib_names) \cap DOMAIN binaries
Undeclared(b) == DOMAIN binaries \ SeqToSet(b.lib_names)

InImage(a, m) == binaries[m].min_addr <= a /\ a <= binaries[m].max_addr

\* C18: an image resolves its imports against the libraries it declares
\* only.  A patched import holds the address of that symbol in a declared,
\* loaded library and never an address inside an image it does not list;
\* an import that only undeclared images export is left unpatched, so that
\* nothing collected for one image is used for another.
C18_DeclaredLibsOnly ==
    pc = "constructed" =>
        \A n \in DOMAIN binaries :
            LET b == binaries[n]
            IN  /\ \A imp \in DOMAIN patched[n] :
                    /\ \E m \in Declared(b) :
                        /\ binaries[m].exports[imp] = "ok"
                        /\ patched[n][imp] = get_symbol_addr(binaries[m], imp)
                    /\ \A m \in Undeclared(b) : ~InImage(patched[n][imp], m)
                /\ \A imp \in b.imports :
                    (\A m \in Declared(b) : binaries[m].exports[imp] # "ok")
                        => imp \notin DOMAIN patched[n]

\* main declares liba only and liba declares libb; both import f, which
\* libb alone exports: liba's import is patched with libb's address and
\* main's import stays unpatched
C18_Witness ==
    /\ pc = "constructed"
    /\ DOMAIN binaries = {MainName, "liba", "libb"}
    /\ binaries[MainName].lib_names = <<"liba">>
    /\ binaries["liba"].lib_names = <<"libb">>
    /\ "f" \in binaries[MainName].imports
    /\ binaries["liba"].imports = {"f"}
    /\ binaries["liba"].exports["f"] # "ok"
    /\ binaries["libb"].exports["f"] = "ok"
    /\ patched["liba"] = [ s \in {"f"} |-> get_symbol_addr(binaries["libb"], "f") ]
    /\ "f" \notin DOMAIN patched[MainName]

\* ---- code references ----

\* how many times address a was popped from the worklist
Pops(a) == Cardinality({ i \in DOMAIN popped : popped[i] = a })

\* C19: every concrete code-reference target is recorded in code_refs_to
\* and code_refs_from and is discovered (queued if it was not seen before)
\* whether or not the permission view has it or marks it executable; when
\* the worklist has drained, every key of code_refs_to was popped exactly
\* once.
C19_CodeRefsFollowed ==
    /\ \A r \in Concrete("code") :
        /\ <<r.inst_addr>> \in Items(tbl.code_refs_to, r.addr)
        /\ <<r.addr>> \in Items(tbl.code_refs_from, r.inst_addr)
        /\ r.addr \in sim_blocks
        /\ r.addr \in Queued(remaining_addrs) \cup SeqToSet(popped)
    /\ pc = "crawled" => \A t \in DOMAIN tbl.code_refs_to : Pops(t) = 1

\* the entry block jumped to 0x3000, which is not executable, and to
\* 0x4000, which the permission view does not have; both were popped
C19_Witness ==
    /\ pc = "crawled"
    /\ perm = ExamplePerm
    /\ {12288, 16384} \subseteq DOMAIN self_refs["code_refs_to"]
    /\ ~Executable(12288) /\ 16384 \notin DOMAIN perm
    /\ Pops(12288) = 1 /\ Pops(16384) = 1

\* ---- memory reads ----

\* the concrete reads reported so far, in order, and those of instruction i
IsConcreteRead(x) == x.kind = "read" /\ ~x.ref.symbolic
ConcreteReads == SelectSeq(reports, IsConcreteRead)
ReadsBy(i) ==
    LET by(x) == x.ref.inst_addr = i
    IN  SelectSeq(ConcreteReads, by)

\* C20: for every concrete read by instruction I of S bytes at T,
\* data_reads_from[I] gains (T, S) and data_reads_to[b] gains I for every
\* byte b of [T, T + S) and for no other address: data_reads_from[I] lists
\* the reads of I in order, and data_reads_to[b] holds I once per read of I
\* that covers b and nothing else.
C20_ReadsRecorded ==
    LET reads == Concrete("read")
        readers == { r.inst_addr : r \in reads }
    IN  /\ DOMAIN tbl.data_reads_from = readers
        /\ \A i \in readers :
            LET mine == ReadsBy(i)
            IN  /\ tbl.data_reads_from[i] =
                        [ k \in DOMAIN mine |-> <<mine[k].ref.addr, mine[k].ref.size \div 8>> ]
                /\ \A b \in DOMAIN tbl.data_reads_to :
                        Count(tbl.data_reads_to, b, <<i>>) =
                            Cardinality({ k \in DOMAIN mine : b \in Bytes(mine[k].ref) })
        /\ DOMAIN tbl.data_reads_to = UNION { Bytes(r) : r \in reads }
        /\ \A b \in DOMAIN tbl.data_reads_to :
            \A item \in Items(tbl.data_reads_to, b) :
                /\ Len(item) = 1
                /\ \E r \in reads : r.inst_addr = item[1] /\ b \in Bytes(r)

\* the entry block read two bytes at 0x4000 and then one byte at 0x4000
C20_Witness ==
    /\ entry \in DOMAIN tbl.data_reads_from
    /\ tbl.data_reads_from[entry] = << <<16384, 2>>, <<16384, 1>> >>
    /\ DOMAIN tbl.data_reads_to = {16384, 16385}
    /\ tbl.data_reads_to[16384] = << <<entry>>, <<entry>> >>
    /\ tbl.data_reads_to[16385] = << <<entry>> >>

====
